---------------------------- MODULE Spec2Model ----------------------------
(***************************************************************************)
(* Anchor-box generation of examples/efficientdet/anchors.py.              *)
(*                                                                         *)
(* Numbers.  The code computes in IEEE floating point.  Here a finite      *)
(* number is the exact real  a + b * 2^e  with a, b rational and e a       *)
(* rational in [0, 1) (e = 0 iff b = 0): the only irrational factors the   *)
(* code introduces are 2 ** octave_scale and sqrt(aspect).  Rounding is    *)
(* not modelled; the non-finite IEEE values nan, +inf and -inf are.        *)
(* Arrays are sequences; a 2-D array is a sequence of rows.  A call that   *)
(* raises is a record whose field err names the exception.                 *)
(***************************************************************************)
EXTENDS Integers, Sequences, FiniteSets, TLC

\* ------------------------------------------------------------ bounds
MaxImage == 3
MaxLevel == 2
MaxScales == 2
MaxAnchorScales == 4

\* --------------------------------------------------------- rationals
Abs(x) == IF x < 0 THEN -x ELSE x

RECURSIVE GCD(_, _)
GCD(x, y) == IF y = 0 THEN x ELSE GCD(y, x % y)

\* the rational n/d in lowest terms, as <<numerator, denominator>>, d > 0
Rat(n, d) ==
    LET g == GCD(Abs(n), Abs(d))
        s == IF d < 0 THEN -1 ELSE 1
    IN  <<(s * n) \div g, (s * d) \div g>>

RInt(n) == <<n, 1>>
RAdd(p, q) == Rat(p[1] * q[2] + q[1] * p[2], p[2] * q[2])
RNeg(p) == <<-p[1], p[2]>>
RSub(p, q) == RAdd(p, RNeg(q))
RMul(p, q) == Rat(p[1] * q[1], p[2] * q[2])
RInv(p) == Rat(p[2], p[1])
RDiv(p, q) == RMul(p, RInv(q))
RLt(p, q) == p[1] * q[2] < q[1] * p[2]
RLeq(p, q) == p[1] * q[2] <= q[1] * p[2]
RSign(p) == IF p[1] > 0 THEN 1 ELSE IF p[1] < 0 THEN -1 ELSE 0
RFloor(p) == p[1] \div p[2]
\* ceil of a rational
RCeil(p) == -((-p[1]) \div p[2])

RECURSIVE IPow(_, _)
IPow(x, n) == IF n = 0 THEN 1 ELSE x * IPow(x, n - 1)

\* 2^n as a rational, n any integer
RPow2(n) == IF n >= 0 THEN <<IPow(2, n), 1>> ELSE <<1, IPow(2, -n)>>

RECURSIVE ISqrtFrom(_, _)
ISqrtFrom(n, r) == IF (r + 1) * (r + 1) > n THEN r ELSE ISqrtFrom(n, r + 1)
ISqrt(n) == ISqrtFrom(n, 0)
IsSquare(n) == ISqrt(n) * ISqrt(n) = n

\* ------------------------------------------------- floating-point values
Zero == <<0, 1>>

\* a value is the tuple <<kind, a, b, e>> flattened: kind is "fin", "nan",
\* "inf" or "ninf", and a, b, e are rationals
Num(kind, a, b, e) == <<kind, a[1], a[2], b[1], b[2], e[1], e[2]>>
NA(x) == <<x[2], x[3]>>
NB(x) == <<x[4], x[5]>>
NE(x) == <<x[6], x[7]>>

\* the finite number a + b * 2^e, normalised
Fin(a, b, e) ==
    IF b[1] = 0 THEN Num("fin", a, Zero, Zero)
    ELSE LET fl == RFloor(e)
             fr == RSub(e, RInt(fl))
             bb == RMul(b, RPow2(fl))
         IN  IF fr[1] = 0
             THEN Num("fin", RAdd(a, bb), Zero, Zero)
             ELSE Num("fin", a, bb, fr)

FRat(q) == Fin(q, Zero, Zero)
FInt(n) == FRat(RInt(n))
NaN == Num("nan", Zero, Zero, Zero)
PInf == Num("inf", Zero, Zero, Zero)
NInf == Num("ninf", Zero, Zero, Zero)

IsFinite(x) == x[1] = "fin"
IsRational(x) == x[1] = "fin" /\ x[4] = 0
\* a finite number with a single term: a rational or q * 2^e
IsMonomial(x) == x[1] = "fin" /\ (x[2] = 0 \/ x[4] = 0)

\* sign of a value that is non-finite or a monomial (nan has sign 0)
FSign(x) ==
    CASE x[1] = "inf" -> 1
      [] x[1] = "ninf" -> -1
      [] x[1] = "nan" -> 0
      [] OTHER -> IF x[4] = 0 THEN RSign(NA(x)) ELSE RSign(NB(x))

FIsZero(x) == x[1] = "fin" /\ x[2] = 0 /\ x[4] = 0

FNeg(x) ==
    CASE x[1] = "inf" -> NInf
      [] x[1] = "ninf" -> PInf
      [] x[1] = "nan" -> NaN
      [] OTHER -> Num("fin", RNeg(NA(x)), RNeg(NB(x)), NE(x))

\* IEEE addition; two finite numbers with different irrational parts never meet
FAdd(x, y) ==
    CASE x[1] = "nan" \/ y[1] = "nan" -> NaN
      [] x[1] = "inf" -> IF y[1] = "ninf" THEN NaN ELSE PInf
      [] x[1] = "ninf" -> IF y[1] = "inf" THEN NaN ELSE NInf
      [] y[1] = "inf" -> PInf
      [] y[1] = "ninf" -> NInf
      [] OTHER ->
           IF y[4] = 0 THEN Fin(RAdd(NA(x), NA(y)), NB(x), NE(x))
           ELSE IF x[4] = 0 THEN Fin(RAdd(NA(x), NA(y)), NB(y), NE(y))
           ELSE Fin(RAdd(NA(x), NA(y)), RAdd(NB(x), NB(y)), NE(x))

FSub(x, y) == FAdd(x, FNeg(y))

\* IEEE multiplication; of two finite numbers one is rational or both are monomials
FMul(x, y) ==
    CASE x[1] = "nan" \/ y[1] = "nan" -> NaN
      [] x[1] # "fin" \/ y[1] # "fin" ->
           LET s == FSign(x) * FSign(y)
           IN  IF s = 0 THEN NaN ELSE IF s > 0 THEN PInf ELSE NInf
      [] OTHER ->
           IF y[4] = 0 THEN Fin(RMul(NA(x), NA(y)), RMul(NB(x), NA(y)), NE(x))
           ELSE IF x[4] = 0 THEN Fin(RMul(NA(x), NA(y)), RMul(NA(x), NB(y)), NE(y))
           ELSE Fin(Zero, RMul(NB(x), NB(y)), RAdd(NE(x), NE(y)))

\* 1 / y for numpy floats: 1 / 0 is inf (a warning, no exception)
FRecip(y) ==
    CASE y[1] = "nan" -> NaN
      [] y[1] # "fin" -> FInt(0)
      [] FIsZero(y) -> PInf
      [] y[4] = 0 -> FRat(RInv(NA(y)))
      [] OTHER -> Fin(Zero, RInv(NB(y)), RNeg(NE(y)))

\* x / y for numpy floats: 0 / 0 and inf / inf are nan
FDiv(x, y) ==
    IF FIsZero(y)
    THEN (CASE x[1] = "nan" \/ FIsZero(x) -> NaN
            [] FSign(x) > 0 -> PInf
            [] OTHER -> NInf)
    ELSE IF x[1] # "fin" /\ y[1] \in {"inf", "ninf"} THEN NaN
    ELSE FMul(x, FRecip(y))

\* np.sqrt: nan below zero (a warning, no exception).  A positive rational
\* n/d = (n*d)/d^2 whose n*d is s^2 or 2*s^2 (every power of two is).
FSqrt(x) ==
    CASE x[1] = "nan" \/ x[1] = "ninf" -> NaN
      [] x[1] = "inf" -> PInf
      [] FSign(x) < 0 -> NaN
      [] FIsZero(x) -> FInt(0)
      [] OTHER ->
           LET nd == x[2] * x[3]
           IN  IF IsSquare(nd) THEN FRat(Rat(ISqrt(nd), x[3]))
               ELSE Fin(Zero, Rat(ISqrt(nd \div 2), x[3]), <<1, 2>>)

\* 2 ** q for a rational q
FPow2(q) == Fin(Zero, <<1, 1>>, q)

\* ------------------------------------------------------- numpy arrays
Min(x, y) == IF x < y THEN x ELSE y
Max(x, y) == IF x > y THEN x ELSE y

RECURSIVE SumTo(_, _)
\* f[1] + ... + f[n]
SumTo(f, n) == IF n = 0 THEN 0 ELSE f[n] + SumTo(f, n - 1)

RECURSIVE Flatten(_)
\* the rows of a 2-D array one after another (reshape(-1) and np.vstack)
Flatten(rows) == IF rows = <<>> THEN <<>> ELSE Head(rows) \o Flatten(Tail(rows))

\* np.repeat(arr, n): every element n times in a row; n < 0 raises
NpRepeat(arr, n) ==
    IF n < 0 THEN [err |-> "ValueError", val |-> <<>>]
    ELSE [err |-> "ok",
          val |-> [i \in 1..(Len(arr) * n) |-> arr[((i - 1) \div n) + 1]]]

\* np.tile(arr, n) of a non-empty 1-D array: n copies of the whole array;
\* n < 0 raises
NpTile(arr, n) ==
    IF n < 0 THEN [err |-> "ValueError", val |-> <<>>]
    ELSE [err |-> "ok",
          val |-> [i \in 1..(Len(arr) * n) |-> arr[((i - 1) % Len(arr)) + 1]]]

\* a reshape that accepts zero rows
NpReshapeRowsLenient(arr, n) ==
    IF n < 0 \/ (n > 0 /\ Len(arr) % n # 0)
    THEN [err |-> "ValueError", val |-> <<>>]
    ELSE [err |-> "ok",
          val |-> [r \in 1..n |->
                     SubSeq(arr, (r - 1) * (Len(arr) \div n) + 1,
                            r * (Len(arr) \div n))]]

\* np.reshape(arr, (n, -1)): n rows; raises when the row length cannot be
\* inferred (n <= 0, or n does not divide the size)
NpReshapeRows(arr, n) ==
    IF n <= 0 \/ Len(arr) % n # 0
    THEN [err |-> "ValueError", val |-> <<>>]
    ELSE [err |-> "ok",
          val |-> [r \in 1..n |->
                     SubSeq(arr, (r - 1) * (Len(arr) \div n) + 1,
                            r * (Len(arr) \div n))]]

\* an arange whose length rounds down
ArangeLenFloor(start, stop, step) ==
    IF FIsZero(step) THEN -1
    ELSE Max(0, RFloor(RDiv(RSub(NA(stop), NA(start)), NA(step))))

\* len(np.arange(start, stop, step)) = ceil((stop - start) / step), at least
\* 0, for rational arguments; -1 stands for the exception a zero step raises
ArangeLen(start, stop, step) ==
    IF FIsZero(step) THEN -1
    ELSE Max(0, RCeil(RDiv(RSub(NA(stop), NA(start)), NA(step))))

\* np.arange(start, stop, step): start + i * step
NpArange(start, stop, step) ==
    [i \in 1..ArangeLen(start, stop, step) |->
        FAdd(start, FMul(FInt(i - 1), step))]

\* ------------------------------------------------ compute_feature_sizes
\* np.vstack((feature_sizes, feature_size)): a 1-D first operand is one row
VStackRow(fs, row) ==
    IF fs.ndim = 1 THEN [ndim |-> 2, data |-> <<fs.data, row>>]
    ELSE [ndim |-> 2, data |-> Append(fs.data, row)]

RECURSIVE FeatureLoop(_, _, _, _)
\* the loop of compute_feature_sizes with n iterations left
FeatureLoop(fs, feature_H, feature_W, n) ==
    IF n <= 0 THEN fs
    ELSE LET h == ((feature_H - 1) \div 2) + 1
             w == ((feature_W - 1) \div 2) + 1
         IN  FeatureLoop(VStackRow(fs, <<h, w>>), h, w, n - 1)

\* feature_sizes starts as the 1-D array [H, W]; every iteration stacks a row
compute_feature_sizes(image_size, max_level) ==
    FeatureLoop([ndim |-> 1, data |-> <<image_size[1], image_size[2]>>],
                image_size[1], image_size[2], max_level)

\* ------------------------------------------------------- build_features
\* feature_sizes[min_level: max_level + 1][:, 0] and [:, 1], each repeated
\* once per combination; [:, 0] on a 1-D array raises IndexError
build_features(feature_sizes, min_level, max_level, combinations) ==
    IF feature_sizes.ndim = 1
    THEN [err |-> "IndexError", H |-> <<>>, W |-> <<>>]
    ELSE LET rows == SubSeq(feature_sizes.data, min_level + 1,
                            Min(max_level + 1, Len(feature_sizes.data)))
             fH == [i \in 1..Len(rows) |-> rows[i][1]]
             fW == [i \in 1..Len(rows) |-> rows[i][2]]
             rH == NpRepeat(fH, combinations)
             rW == NpRepeat(fW, combinations)
         IN  IF rH.err # "ok" THEN [err |-> rH.err, H |-> <<>>, W |-> <<>>]
             ELSE [err |-> "ok", H |-> rH.val, W |-> rW.val]

\* -------------------------------------------------------- build_octaves
build_octaves(num_scales, aspect_ratios, num_levels) ==
    LET scale_octaves == NpRepeat([i \in 1..num_scales |-> i - 1],
                                  Len(aspect_ratios)).val
        tiled == NpTile(scale_octaves, num_levels)
        scaled == [i \in 1..Len(tiled.val) |-> Rat(tiled.val[i], num_scales)]
    IN  IF tiled.err # "ok" THEN tiled
        ELSE NpReshapeRows(scaled, num_levels)

\* -------------------------------------------------------- build_aspects
build_aspects(aspect_ratios, num_scales, num_levels) ==
    LET aspect == NpTile(aspect_ratios, num_scales).val
        tiled == NpTile(aspect, num_levels)
    IN  IF tiled.err # "ok" THEN tiled
        ELSE NpReshapeRows(tiled.val, num_levels)

\* -------------------------------------------------------- build_strides
\* base_feature * np.reciprocal(features), reshaped to one row per level
StridesOf(base, features, num_levels) ==
    NpReshapeRows([i \in 1..Len(features) |->
                      FMul(FInt(base), FRecip(FInt(features[i])))],
                  num_levels)

\* strides whose base is the feature size of min_level, not of level 0
build_strides_min_level_base(feature_sizes, features_H, features_W, num_levels) ==
    LET base_feature_H == IF features_H = <<>> THEN 1 ELSE features_H[1]
        base_feature_W == IF features_W = <<>> THEN 1 ELSE features_W[1]
        strides_y == StridesOf(base_feature_H, features_H, num_levels)
        strides_x == StridesOf(base_feature_W, features_W, num_levels)
    IN  IF strides_y.err # "ok"
        THEN [err |-> strides_y.err, y |-> <<>>, x |-> <<>>]
        ELSE IF strides_x.err # "ok"
        THEN [err |-> strides_x.err, y |-> <<>>, x |-> <<>>]
        ELSE [err |-> "ok", y |-> strides_y.val, x |-> strides_x.val]

build_strides(feature_sizes, features_H, features_W, num_levels) ==
    LET base_feature_H == feature_sizes.data[1][1]
        base_feature_W == feature_sizes.data[1][2]
        strides_y == StridesOf(base_feature_H, features_H, num_levels)
        strides_x == StridesOf(base_feature_W, features_W, num_levels)
    IN  IF strides_y.err # "ok"
        THEN [err |-> strides_y.err, y |-> <<>>, x |-> <<>>]
        ELSE IF strides_x.err # "ok"
        THEN [err |-> strides_x.err, y |-> <<>>, x |-> <<>>]
        ELSE [err |-> "ok", y |-> strides_y.val, x |-> strides_x.val]

\* --------------------------------------------------------- build_scales
build_scales(anchor_scale, combinations, num_levels) ==
    LET repeated == NpRepeat(anchor_scale, combinations)
    IN  IF repeated.err # "ok" THEN repeated
        ELSE NpReshapeRows(repeated.val, num_levels)

\* ---------------------------------------------- generate_configurations
NoConfiguration(e) ==
    [err |-> e, strides_y |-> <<>>, strides_x |-> <<>>, octave_scales |-> <<>>,
     aspects |-> <<>>, anchor_scales |-> <<>>, num_levels |-> 0,
     combinations |-> 0]

\* the helpers run in the order of the code; the first exception propagates
generate_configurations(feature_sizes, min_level, max_level, num_scales, aspect_ratios, anchor_scale) ==
    LET num_levels == max_level + 1 - min_level
        combinations == num_scales * Len(aspect_ratios)
        features == build_features(feature_sizes, min_level, max_level,
                                   combinations)
        octave_scales == build_octaves(num_scales, aspect_ratios, num_levels)
        aspects == build_aspects(aspect_ratios, num_scales, num_levels)
        strides == build_strides(feature_sizes, features.H, features.W,
                                 num_levels)
        anchor_scales == build_scales(anchor_scale, combinations, num_levels)
    IN  CASE features.err # "ok" -> NoConfiguration(features.err)
          [] octave_scales.err # "ok" -> NoConfiguration(octave_scales.err)
          [] aspects.err # "ok" -> NoConfiguration(aspects.err)
          [] strides.err # "ok" -> NoConfiguration(strides.err)
          [] anchor_scales.err # "ok" -> NoConfiguration(anchor_scales.err)
          [] OTHER ->
               [err |-> "ok", strides_y |-> strides.y, strides_x |-> strides.x,
                octave_scales |-> octave_scales.val, aspects |-> aspects.val,
                anchor_scales |-> anchor_scales.val,
                num_levels |-> num_levels, combinations |-> combinations]

\* ------------------------------------------------- compute_aspect_ratio
compute_aspect_ratio(aspect) ==
    LET aspect_x == FSqrt(aspect)
        aspect_y == FDiv(FInt(1), aspect_x)
    IN  [x |-> aspect_x, y |-> aspect_y]

\* ---------------------------------------------- compute_box_coordinates
\* half extents whose anchor_y is not halved
HalfExtentsFullHeight(stride_y, stride_x, octave_scale, aspect_x, aspect_y, anchor_scale, image_size) ==
    [x |-> FDiv(FDiv(FMul(FMul(FMul(anchor_scale, stride_x),
                               FPow2(octave_scale)), aspect_x),
                     FInt(2)), FInt(image_size[2])),
     y |-> FDiv(FMul(FMul(FMul(anchor_scale, stride_y),
                          FPow2(octave_scale)), aspect_y),
                FInt(image_size[1]))]

\* anchor_x and anchor_y, the half extents of a box; W, H = image_size
HalfExtents(stride_y, stride_x, octave_scale, aspect_x, aspect_y, anchor_scale, image_size) ==
    [x |-> FDiv(FDiv(FMul(FMul(FMul(anchor_scale, stride_x),
                               FPow2(octave_scale)), aspect_x),
                     FInt(2)), FInt(image_size[2])),
     y |-> FDiv(FDiv(FMul(FMul(FMul(anchor_scale, stride_y),
                               FPow2(octave_scale)), aspect_y),
                     FInt(2)), FInt(image_size[1]))]

AnchorExtents(stride_y, stride_x, octave_scale, asp, anchor_scale, image_size) ==
    HalfExtents(stride_y, stride_x, octave_scale, asp.x, asp.y, anchor_scale,
                image_size)

\* grid centres left in pixels, without the division by the image size
GridCentersInPixels(x, y, half, W, H) ==
    [err |-> "ok",
     center_x |-> [g \in 1..(Len(y) * Len(x)) |-> x[((g - 1) % Len(x)) + 1]],
     center_y |-> [g \in 1..(Len(y) * Len(x)) |->
                     y[((g - 1) \div Len(x)) + 1]],
     anchor_x |-> half.x, anchor_y |-> half.y]

\* a grid read column by column: the x index outermost
GridCentersColumnMajor(x, y, half, W, H) ==
    [err |-> "ok",
     center_x |-> [g \in 1..(Len(y) * Len(x)) |->
                     FDiv(x[((g - 1) \div Len(y)) + 1], H)],
     center_y |-> [g \in 1..(Len(y) * Len(x)) |->
                     FDiv(y[((g - 1) % Len(y)) + 1], W)],
     anchor_x |-> half.x, anchor_y |-> half.y]

\* np.meshgrid(x, y) has len(y) rows of len(x) entries; reshape(-1) reads it
\* row by row; then center_x / H and center_y / W
GridCenters(x, y, half, W, H) ==
    [err |-> "ok",
     center_x |-> [g \in 1..(Len(y) * Len(x)) |->
                     FDiv(x[((g - 1) % Len(x)) + 1], H)],
     center_y |-> [g \in 1..(Len(y) * Len(x)) |->
                     FDiv(y[((g - 1) \div Len(x)) + 1], W)],
     anchor_x |-> half.x, anchor_y |-> half.y]

\* W, H = image_size; x = np.arange(stride_x / 2, H, stride_x) and
\* y = np.arange(stride_y / 2, W, stride_y); a zero stride raises in np.arange
compute_box_coordinates(stride_y, stride_x, octave_scale, aspect, anchor_scale, image_size) ==
    IF FIsZero(stride_x) \/ FIsZero(stride_y)
    THEN [err |-> "ZeroDivisionError", center_x |-> <<>>, center_y |-> <<>>,
          anchor_x |-> NaN, anchor_y |-> NaN]
    ELSE GridCenters(
             NpArange(FDiv(stride_x, FInt(2)), FInt(image_size[2]), stride_x),
             NpArange(FDiv(stride_y, FInt(2)), FInt(image_size[1]), stride_y),
             AnchorExtents(stride_y, stride_x, octave_scale,
                           compute_aspect_ratio(aspect), anchor_scale,
                           image_size),
             FInt(image_size[1]), FInt(image_size[2]))

\* ------------------------------------------------- generate_level_boxes
\* np.swapaxes(np.vstack((r1, r2, r3, r4)), 0, 1): one 4-tuple per grid point
SwapAxes(rows) ==
    [g \in 1..Len(rows[1]) |-> [j \in 1..4 |-> rows[j][g]]]

\* boxes in the order (y_min, x_min, y_max, x_max)
CornerBoxesYFirst(c) ==
    IF c.err # "ok" THEN [err |-> c.err, val |-> <<>>]
    ELSE [err |-> "ok",
          val |-> SwapAxes(<<
            [g \in 1..Len(c.center_x) |-> FSub(c.center_y[g], c.anchor_y)],
            [g \in 1..Len(c.center_x) |-> FSub(c.center_x[g], c.anchor_x)],
            [g \in 1..Len(c.center_x) |-> FAdd(c.center_y[g], c.anchor_y)],
            [g \in 1..Len(c.center_x) |-> FAdd(c.center_x[g], c.anchor_x)]>>)]

\* boxes whose half width grows with the grid position
CornerBoxesGrowing(c) ==
    IF c.err # "ok" THEN [err |-> c.err, val |-> <<>>]
    ELSE [err |-> "ok",
          val |-> SwapAxes(<<
            [g \in 1..Len(c.center_x) |-> FSub(c.center_x[g], c.anchor_x)],
            [g \in 1..Len(c.center_x) |-> FSub(c.center_y[g], c.anchor_y)],
            [g \in 1..Len(c.center_x) |->
                FAdd(c.center_x[g], FMul(FInt(g), c.anchor_x))],
            [g \in 1..Len(c.center_x) |-> FAdd(c.center_y[g], c.anchor_y)]>>)]

\* boxes = (center_x - anchor_x, center_y - anchor_y, center_x + anchor_x,
\* center_y + anchor_y), stacked and swapped to shape (grid points, 4)
CornerBoxes(c) ==
    IF c.err # "ok" THEN [err |-> c.err, val |-> <<>>]
    ELSE [err |-> "ok",
          val |-> SwapAxes(<<
            [g \in 1..Len(c.center_x) |-> FSub(c.center_x[g], c.anchor_x)],
            [g \in 1..Len(c.center_x) |-> FSub(c.center_y[g], c.anchor_y)],
            [g \in 1..Len(c.center_x) |-> FAdd(c.center_x[g], c.anchor_x)],
            [g \in 1..Len(c.center_x) |-> FAdd(c.center_y[g], c.anchor_y)]>>)]

\* the boxes of one combination (1-based here), or the IndexError of
\* indexing a configuration row that is too short
CombinationBoxes(strides_y, strides_x, octave_scales, aspects, anchor_scales, image_size, combination) ==
    IF \/ combination > Len(strides_y) \/ combination > Len(strides_x)
       \/ combination > Len(octave_scales) \/ combination > Len(aspects)
       \/ combination > Len(anchor_scales)
    THEN [err |-> "IndexError", val |-> <<>>]
    ELSE CornerBoxes(compute_box_coordinates(
             strides_y[combination], strides_x[combination],
             octave_scales[combination], aspects[combination],
             anchor_scales[combination], image_size))

\* boxes_level.append(np.expand_dims(boxes, axis=1)) for every combination;
\* the exception of the first combination that raises propagates
BoxesLevel(per) ==
    IF \E c \in 1..Len(per) : per[c].err # "ok"
    THEN [err |-> per[CHOOSE c \in 1..Len(per) :
                        /\ per[c].err # "ok"
                        /\ \A d \in 1..(c - 1) : per[d].err = "ok"].err,
          val |-> <<>>]
    ELSE [err |-> "ok",
          val |-> [c \in 1..Len(per) |->
                     [g \in 1..Len(per[c].val) |-> <<per[c].val[g]>>]]]

\* a loop that leaves out the last combination
generate_level_boxes_short(strides_y, strides_x, octave_scales, aspects, anchor_scales, image_size, combinations) ==
    BoxesLevel([c \in 1..(combinations - 1) |->
                  CombinationBoxes(strides_y, strides_x, octave_scales,
                                   aspects, anchor_scales, image_size, c)])

generate_level_boxes(strides_y, strides_x, octave_scales, aspects, anchor_scales, image_size, combinations) ==
    BoxesLevel([c \in 1..combinations |->
                  CombinationBoxes(strides_y, strides_x, octave_scales,
                                   aspects, anchor_scales, image_size, c)])

\* -------------------------------------------- generate_anchors (one level)
\* a flattening that reads the level combination by combination
LevelArrayCombinationMajor(boxes_level) ==
    Flatten([c \in 1..Len(boxes_level) |->
               [g \in 1..Len(boxes_level[c]) |-> boxes_level[c][g][1]]])

\* np.concatenate(boxes_level, axis=1).reshape([-1, 4]): per grid point the
\* boxes of all combinations; the grids of one level have one size
LevelArray(boxes_level) ==
    Flatten([g \in 1..Len(boxes_level[1]) |->
               Flatten([c \in 1..Len(boxes_level) |-> boxes_level[c][g]])])

\* ------------------------------------- paz.backend.boxes (not in src/)
\* corner form (x_min, y_min, x_max, y_max) to centre form (cx, cy, w, h)
to_center_form(boxes) ==
    [i \in 1..Len(boxes) |->
        <<FDiv(FAdd(boxes[i][3], boxes[i][1]), FInt(2)),
          FDiv(FAdd(boxes[i][4], boxes[i][2]), FInt(2)),
          FSub(boxes[i][3], boxes[i][1]),
          FSub(boxes[i][4], boxes[i][2])>>]

\* centre form back to corner form
to_corner_form(boxes) ==
    [i \in 1..Len(boxes) |->
        <<FSub(boxes[i][1], FDiv(boxes[i][3], FInt(2))),
          FSub(boxes[i][2], FDiv(boxes[i][4], FInt(2))),
          FAdd(boxes[i][1], FDiv(boxes[i][3], FInt(2))),
          FAdd(boxes[i][2], FDiv(boxes[i][4], FInt(2)))>>]

\* ---------------------------------------------------------------- state
VARIABLES
    call,            \* the function the caller invoked
    args,            \* min_level, max_level, num_scales, aspect_ratios,
                     \* anchor_scale, image_size
    feature_sizes,   \* the feature_sizes array
    anchor_scales,   \* the 1-D anchor_scales array
    configuration,   \* what generate_configurations returned
    level,           \* loop variable of generate_anchors
    boxes_all,       \* list of the level arrays built so far
    anchors,         \* what a direct call of generate_anchors returned
    prior_boxes,     \* the variable prior_boxes of build_prior_boxes
    pc,              \* position in the call
    err,             \* the exception that ended the call, or "ok"
    previous,        \* the caller's record of the calls it finished earlier
    box_coordinates, \* what a direct call of compute_box_coordinates returned
    image_scale,     \* ScaledResize.call: the local image_scale
    scaled_image,    \* ScaledResize.call: the local scaled_image (its shape)
    output_images,   \* ScaledResize.call: the local output_images (its shape)
    indices,         \* compute_NMS: the local indices
    proposals,       \* compute_NMS: the local proposals
    trimmed          \* trim_anchors_by_score: its locals and outputs

\* the variables anchor generation never touches
otherVars == <<previous, box_coordinates, image_scale, scaled_image,
               output_images, indices, proposals, trimmed>>

vars == <<call, args, feature_sizes, anchor_scales, configuration, level,
          boxes_all, anchors, prior_boxes, pc, err, otherVars>>

\* the values of variables no call has assigned yet
NoValue == <<>>

\* aspect_ratios lists: the usual ones, and lists with a non-positive ratio
AspectLists ==
    { <<FInt(1)>>,
      <<FInt(1), FInt(2)>>,
      <<FInt(1), FInt(2), FRat(<<1, 2>>)>>,
      <<FInt(0)>>,
      <<FInt(2), FInt(-1)>> }

AnchorScaleValues == {FInt(1), FInt(4)}

Arguments ==
    [min_level : 0..MaxLevel, max_level : 0..MaxLevel,
     num_scales : 1..MaxScales, aspect_ratios : AspectLists,
     anchor_scale : AnchorScaleValues,
     image_size : (1..MaxImage) \X (1..MaxImage)]

NoFeatureSizes == [ndim |-> 1, data |-> <<>>]

\* a caller of build_prior_boxes
InitBuildPriorBoxes ==
    /\ call = "build_prior_boxes"
    /\ args \in Arguments
    /\ feature_sizes = NoFeatureSizes
    /\ anchor_scales = <<>>
    /\ pc = "start"

\* a caller of generate_anchors or generate_configurations, who passes its own
\* feature_sizes (of compute_feature_sizes for some level count) and its own
\* anchor_scales array (of any length)
InitDirect ==
    /\ call \in {"generate_anchors", "generate_configurations"}
    /\ args \in {a \in Arguments : a.anchor_scale = FInt(1)}
    /\ \E rows \in 1..MaxLevel :
          feature_sizes = compute_feature_sizes(args.image_size, rows)
    /\ \E n \in 1..MaxAnchorScales :
          anchor_scales = [i \in 1..n |-> FInt(i)]
    /\ pc = "configure"

Init ==
    /\ InitBuildPriorBoxes \/ InitDirect
    /\ configuration = NoConfiguration("none")
    /\ level = 0
    /\ boxes_all = <<>>
    /\ anchors = <<>>
    /\ prior_boxes = <<>>
    /\ err = "ok"
    /\ previous = NoValue /\ box_coordinates = NoValue
    /\ image_scale = NoValue /\ scaled_image = NoValue
    /\ output_images = NoValue
    /\ indices = NoValue /\ proposals = NoValue
    /\ trimmed = NoValue

\* build_prior_boxes, up to the call of generate_anchors
BuildPriorBoxes ==
    /\ pc = "start"
    /\ LET repeated == NpRepeat(<<args.anchor_scale>>,
                                args.max_level - args.min_level + 1)
       IN  IF repeated.err # "ok"
           THEN /\ err' = repeated.err
                /\ pc' = "raised"
                /\ UNCHANGED <<feature_sizes, anchor_scales>>
           ELSE /\ anchor_scales' = repeated.val
                /\ feature_sizes' =
                      compute_feature_sizes(args.image_size, args.max_level)
                /\ pc' = "configure"
                /\ err' = err
    /\ UNCHANGED <<call, args, configuration, level, boxes_all, anchors,
                   prior_boxes, otherVars>>

\* a generate_anchors whose boxes_all list outlives the call: it starts with
\* the boxes an earlier call returned
GenerateConfigurationsSharedList ==
    /\ pc = "configure"
    /\ configuration' =
          generate_configurations(feature_sizes, args.min_level,
                                  args.max_level, args.num_scales,
                                  args.aspect_ratios, anchor_scales)
    /\ err' = IF configuration'.err = "ok" THEN err ELSE configuration'.err
    /\ pc' = IF configuration'.err # "ok" THEN "raised"
             ELSE IF call = "generate_configurations" THEN "done"
             ELSE "levels"
    /\ level' = 0
    /\ boxes_all' = IF previous = <<>> THEN <<>> ELSE <<previous[1].result>>
    /\ UNCHANGED <<call, args, feature_sizes, anchor_scales, anchors,
                   prior_boxes, otherVars>>

\* a generate_anchors that reshapes the caller's anchor_scales array in place
GenerateConfigurationsInPlace ==
    /\ pc = "configure"
    /\ configuration' =
          generate_configurations(feature_sizes, args.min_level,
                                  args.max_level, args.num_scales,
                                  args.aspect_ratios, anchor_scales)
    /\ err' = IF configuration'.err = "ok" THEN err ELSE configuration'.err
    /\ pc' = IF configuration'.err # "ok" THEN "raised"
             ELSE IF call = "generate_configurations" THEN "done"
             ELSE "levels"
    /\ level' = 0
    /\ boxes_all' = <<>>
    /\ anchor_scales' = Flatten(configuration'.anchor_scales)
    /\ UNCHANGED <<call, args, feature_sizes, anchors, prior_boxes, otherVars>>

\* generate_anchors up to the loop: the call of generate_configurations and
\* boxes_all = []; also a direct call of generate_configurations
GenerateConfigurations ==
    /\ pc = "configure"
    /\ configuration' =
          generate_configurations(feature_sizes, args.min_level,
                                  args.max_level, args.num_scales,
                                  args.aspect_ratios, anchor_scales)
    /\ err' = IF configuration'.err = "ok" THEN err ELSE configuration'.err
    /\ pc' = IF configuration'.err # "ok" THEN "raised"
             ELSE IF call = "generate_configurations" THEN "done"
             ELSE "levels"
    /\ level' = 0
    /\ boxes_all' = <<>>
    /\ UNCHANGED <<call, args, feature_sizes, anchor_scales, anchors,
                   prior_boxes, otherVars>>

\* the effect of one iteration, given what generate_level_boxes returned;
\* np.concatenate of an empty list raises
LevelStep(boxes_level) ==
    IF boxes_level.err # "ok" \/ boxes_level.val = <<>>
    THEN /\ err' = IF boxes_level.err # "ok" THEN boxes_level.err
                   ELSE "ValueError"
         /\ pc' = "raised"
         /\ UNCHANGED <<boxes_all, level>>
    ELSE /\ boxes_all' = Append(boxes_all, LevelArray(boxes_level.val))
         /\ level' = level + 1
         /\ UNCHANGED <<pc, err>>

\* generate_anchors, one iteration of the loop over the levels
GenerateLevel ==
    /\ pc = "levels"
    /\ level < configuration.num_levels
    /\ LevelStep(generate_level_boxes(
                     configuration.strides_y[level + 1],
                     configuration.strides_x[level + 1],
                     configuration.octave_scales[level + 1],
                     configuration.aspects[level + 1],
                     configuration.anchor_scales[level + 1],
                     args.image_size, configuration.combinations))
    /\ UNCHANGED <<call, args, feature_sizes, anchor_scales, configuration,
                   anchors, prior_boxes, otherVars>>

\* generate_anchors, after the loop: np.vstack(boxes_all).astype('float32')
\* and the return, which ends the frame of generate_anchors; build_prior_boxes
\* assigns the result to its prior_boxes
StackAnchors ==
    /\ pc = "levels"
    /\ level = configuration.num_levels
    /\ IF boxes_all = <<>>
       THEN /\ err' = "ValueError"
            /\ pc' = "raised"
            /\ UNCHANGED <<anchors, prior_boxes, boxes_all, configuration>>
       ELSE /\ IF call = "generate_anchors"
               THEN /\ anchors' = Flatten(boxes_all)
                    /\ pc' = "done"
                    /\ UNCHANGED prior_boxes
               ELSE /\ prior_boxes' = Flatten(boxes_all)
                    /\ pc' = "convert"
                    /\ UNCHANGED anchors
            /\ boxes_all' = <<>>
            /\ configuration' = NoConfiguration("none")
            /\ err' = err
    /\ UNCHANGED <<call, args, feature_sizes, anchor_scales, level, otherVars>>

\* build_prior_boxes, after generate_anchors returned:
\* prior_boxes = to_center_form(prior_boxes)
ToCenterForm ==
    /\ pc = "convert"
    /\ prior_boxes' = to_center_form(prior_boxes)
    /\ pc' = "done"
    /\ UNCHANGED <<call, args, feature_sizes, anchor_scales, configuration,
                   level, boxes_all, anchors, err, otherVars>>

Next ==
    \/ BuildPriorBoxes
    \/ GenerateConfigurations
    \/ GenerateLevel
    \/ StackAnchors
    \/ ToCenterForm

Spec == Init /\ [][Next]_vars

\* ------------------------------------------------------ the claims
\* what the claims say of a call, computed from its arguments alone
NumLevels == args.max_level - args.min_level + 1
Combinations == args.num_scales * Len(args.aspect_ratios)
PositiveAspects ==
    \A i \in 1..Len(args.aspect_ratios) : FSign(args.aspect_ratios[i]) > 0
Returned == call = "build_prior_boxes" /\ pc = "done"

\* row l of compute_feature_sizes(image_size, top), l >= 0
FeatureRow(image_size, top, l) ==
    compute_feature_sizes(image_size, top).data[l + 1]

\* the strides build_strides gives level l
StrideY(image_size, top, l) ==
    FMul(FInt(image_size[1]), FRecip(FInt(FeatureRow(image_size, top, l)[1])))
StrideX(image_size, top, l) ==
    FMul(FInt(image_size[2]), FRecip(FInt(FeatureRow(image_size, top, l)[2])))

\* the lengths of the x and y ranges compute_box_coordinates builds
RangeLen(stride, extent) == ArangeLen(FDiv(stride, FInt(2)), FInt(extent), stride)
GridX(image_size, top, l) == RangeLen(StrideX(image_size, top, l), image_size[2])
GridY(image_size, top, l) == RangeLen(StrideY(image_size, top, l), image_size[1])
GridPoints(image_size, top, l) ==
    GridX(image_size, top, l) * GridY(image_size, top, l)

\* sum over the levels lo..hi of the grid points times the combinations, the
\* feature sizes being those of compute_feature_sizes(image_size, top)
GridTotal(image_size, top, lo, hi, combinations) ==
    SumTo([i \in 1..(hi - lo + 1) |->
             GridPoints(image_size, top, lo + i - 1) * combinations],
          hi - lo + 1)

\* sum over the levels lo..hi of feature_H * feature_W * combinations
FeatureTotal(image_size, lo, hi, combinations) ==
    SumTo([i \in 1..(hi - lo + 1) |->
             FeatureRow(image_size, hi, lo + i - 1)[1]
               * FeatureRow(image_size, hi, lo + i - 1)[2] * combinations],
          hi - lo + 1)

\* C1: the number of boxes build_prior_boxes returns is the sum over the
\* levels min_level..max_level of (grid points of the level) * num_scales *
\* len(aspect_ratios); and with min_level <= max_level the call does return,
\* except for max_level = 0, where it raises (see C8)
C1_CountIsSumOverLevels ==
    /\ Returned =>
          Len(prior_boxes) =
             GridTotal(args.image_size, args.max_level, args.min_level,
                       args.max_level,
                       args.num_scales * Len(args.aspect_ratios))
    /\ (call = "build_prior_boxes" /\ pc = "raised") =>
          (args.max_level < args.min_level \/ args.max_level = 0)

C1_Witness ==
    /\ Returned
    /\ args.image_size = <<3, 2>>
    /\ args.min_level = 0 /\ args.max_level = 2
    /\ args.num_scales = 2 /\ Len(args.aspect_ratios) = 3
    /\ Len(prior_boxes) = 54

\* the grid of one combination has feature_W distinct x centres, feature_H
\* distinct y centres and feature_H * feature_W points
GridShape(c, feature) ==
    /\ c.err = "ok"
    /\ Len(c.center_x) = feature[1] * feature[2]
    /\ Cardinality({c.center_x[g] : g \in 1..Len(c.center_x)}) = feature[2]
    /\ Cardinality({c.center_y[g] : g \in 1..Len(c.center_y)}) = feature[1]

\* C2: in build_prior_boxes, for every image size and every level l in
\* min_level..max_level, the grid compute_box_coordinates builds has exactly
\* feature_W[l] x centres and feature_H[l] y centres, so the anchor count is
\* the sum over the levels of feature_H[l] * feature_W[l] * combinations;
\* (512, 512), levels 3..7 and 9 combinations give 49104, with feature size
\* (64, 64) at level 3
C2_GridMatchesFeatureSize ==
    /\ (call = "build_prior_boxes" /\ pc = "levels"
          /\ level < configuration.num_levels) =>
          \A c \in 1..configuration.combinations :
             GridShape(compute_box_coordinates(
                           configuration.strides_y[level + 1][c],
                           configuration.strides_x[level + 1][c],
                           configuration.octave_scales[level + 1][c],
                           configuration.aspects[level + 1][c],
                           configuration.anchor_scales[level + 1][c],
                           args.image_size),
                       feature_sizes.data[args.min_level + level + 1])
    /\ Returned =>
          Len(prior_boxes) =
             FeatureTotal(args.image_size, args.min_level, args.max_level,
                          args.num_scales * Len(args.aspect_ratios))
    /\ FeatureRow(<<512, 512>>, 7, 3) = <<64, 64>>
    /\ GridTotal(<<512, 512>>, 7, 3, 7, 9) = 49104

C2_Witness ==
    /\ call = "build_prior_boxes" /\ pc = "levels"
    /\ args.image_size = <<3, 2>>
    /\ args.min_level = 1 /\ level = 0
    /\ feature_sizes.data[2] = <<2, 1>>
    /\ configuration.combinations = 6

\* the boxes of one combination sit at offset + g * C + c (0-based g, c)
PlacedAt(boxes, c, C, offset) ==
    /\ boxes.err = "ok"
    /\ \A g \in 1..Len(boxes.val) :
          <<prior_boxes[offset + (g - 1) * C + c]>>
             = to_center_form(<<boxes.val[g]>>)

\* all combinations of level l (0-based index into the configuration)
LevelPlaced(cfg, l, C, offset) ==
    \A c \in 1..C :
       PlacedAt(CombinationBoxes(cfg.strides_y[l + 1], cfg.strides_x[l + 1],
                                 cfg.octave_scales[l + 1], cfg.aspects[l + 1],
                                 cfg.anchor_scales[l + 1], args.image_size, c),
                c, C, offset)

AllLevelsPlaced(cfg) ==
    \A l \in 0..(cfg.num_levels - 1) :
       LevelPlaced(cfg, l, cfg.combinations,
                   IF l = 0 THEN 0
                   ELSE GridTotal(args.image_size, args.max_level,
                                  args.min_level, args.min_level + l - 1,
                                  cfg.combinations))

\* C3: the anchor set is level-major, then grid-position-major, then
\* combination-minor: the box at offset(l) + g * C + c is the box of grid
\* point g and combination c of level l
C3_LevelGridCombinationOrder ==
    Returned =>
       AllLevelsPlaced(
          generate_configurations(
             compute_feature_sizes(args.image_size, args.max_level),
             args.min_level, args.max_level, args.num_scales,
             args.aspect_ratios,
             [i \in 1..NumLevels |-> args.anchor_scale]))

C3_Witness ==
    /\ Returned
    /\ args.image_size = <<2, 3>>
    /\ args.min_level = 0 /\ args.max_level = 1
    /\ args.num_scales = 2 /\ Len(args.aspect_ratios) = 3
    /\ PositiveAspects
    /\ Len(prior_boxes) = 48
    /\ prior_boxes[1] # prior_boxes[2]
    /\ prior_boxes[1][1] # prior_boxes[7][1]

\* a monomial or rational x is at most the positive rational q
AtMost(x, q) ==
    \/ FSign(x) <= 0
    \/ /\ x[4] = 0
       /\ RLeq(NA(x), q)
    \/ /\ x[4] # 0
       /\ IPow(RDiv(NB(x), q)[1], x[7]) * IPow(2, x[6])
             <= IPow(RDiv(NB(x), q)[2], x[7])

\* -1/10 <= x <= 1 + 1/10 for a coordinate of a centre-form box
InUnitSlack(x) ==
    /\ IsMonomial(x)
    /\ AtMost(x, <<11, 10>>)
    /\ AtMost(FNeg(x), <<1, 10>>)

StrictlyInside(x) ==
    IsRational(x) /\ RLt(Zero, NA(x)) /\ RLt(NA(x), <<1, 1>>)

ValidCall == Returned /\ PositiveAspects /\ FSign(args.anchor_scale) > 0

\* C4 as claimed: every coordinate of every returned box (cx, cy, w, h) lies
\* within [-eps, 1 + eps], here with eps = 1/10
C4_AllCoordinatesInUnitRange ==
    ValidCall =>
       \A i \in 1..Len(prior_boxes) :
          \A j \in 1..4 : InUnitSlack(prior_boxes[i][j])

\* C4 as amended: for valid inputs every centre (cx, cy) of a returned box
\* lies strictly inside (0, 1) and every width and height is positive; the
\* widths and heights themselves are not bounded by 1
C4_CentresInsideExtentsPositive ==
    ValidCall =>
       \A i \in 1..Len(prior_boxes) :
          /\ StrictlyInside(prior_boxes[i][1])
          /\ StrictlyInside(prior_boxes[i][2])
          /\ IsMonomial(prior_boxes[i][3]) /\ FSign(prior_boxes[i][3]) > 0
          /\ IsMonomial(prior_boxes[i][4]) /\ FSign(prior_boxes[i][4]) > 0

\* a returned box four times as wide and as high as the image
C4_Witness ==
    /\ ValidCall
    /\ args.image_size = <<3, 3>>
    /\ \E i \in 1..Len(prior_boxes) :
          /\ StrictlyInside(prior_boxes[i][1])
          /\ prior_boxes[i][3] = FInt(4)
          /\ prior_boxes[i][4] = FInt(4)

\* C5: with max_level < min_level, build_prior_boxes and
\* generate_configurations (and generate_anchors) end in an exception: no
\* configuration and no anchor set, empty or not, is ever returned; this
\* includes max_level = min_level - 1, where num_levels is 0
C5_InvalidLevelRangeRaises ==
    args.max_level < args.min_level =>
       /\ pc \in {"start", "configure", "raised"}
       /\ pc = "raised" => err # "ok"
       /\ configuration.err # "ok"
       /\ anchors = <<>> /\ prior_boxes = <<>>

C5_Witness ==
    /\ call = "generate_configurations"
    /\ args.max_level = args.min_level - 1
    /\ feature_sizes.ndim = 2
    /\ pc = "raised"
    /\ err = "ValueError"

AllFinite(boxes) ==
    \A i \in 1..Len(boxes) : \A j \in 1..4 : IsFinite(boxes[i][j])

HasNonPositiveAspect ==
    \E i \in 1..Len(args.aspect_ratios) : FSign(args.aspect_ratios[i]) <= 0

HasZeroStride ==
    /\ configuration.err = "ok"
    /\ \E l \in 1..configuration.num_levels :
          \/ \E c \in 1..Len(configuration.strides_y[l]) :
                FIsZero(configuration.strides_y[l][c])
          \/ \E c \in 1..Len(configuration.strides_x[l]) :
                FIsZero(configuration.strides_x[l][c])

\* C6 as claimed: with a non-positive aspect ratio or a zero stride the
\* construction ends in an exception; no boxes with nan or infinite
\* coordinates are ever returned
C6_NonPositiveAspectRaises ==
    /\ (HasNonPositiveAspect \/ HasZeroStride) =>
          (pc \notin {"convert", "done"} \/ call = "generate_configurations")
    /\ AllFinite(anchors)
    /\ AllFinite(prior_boxes)

\* rows of feature_sizes, as len() counts them
FeatureRows == Len(feature_sizes.data)

\* C7 as claimed: generate_anchors called (with positive aspect ratios, so
\* that C6 plays no part) with an anchor_scales array whose
\* length is not num_levels, or with fewer than max_level + 1 rows of
\* feature_sizes, raises and returns no anchor array
C7_ShapeMismatchRaises ==
    (/\ call = "generate_anchors"
     /\ PositiveAspects
     /\ \/ Len(anchor_scales) # NumLevels
        \/ FeatureRows < args.max_level + 1) =>
       (pc # "done" /\ anchors = <<>>)

\* ceil(n / 2)
CeilHalf(n) == -((-n) \div 2)

\* C8 as claimed: compute_feature_sizes(image_size, max_level) is max_level + 1
\* (H, W) pairs: row 0 is the image size and row l >= 1 is (old - 1) // 2 + 1,
\* which is ceil(old / 2), of row l - 1 in both dimensions
C8_FeatureSizesRows ==
    (call = "build_prior_boxes" /\ pc \notin {"start", "raised"}) =>
       /\ feature_sizes.ndim = 2
       /\ Len(feature_sizes.data) = args.max_level + 1
       /\ feature_sizes.data[1] = args.image_size
       /\ \A l \in 2..Len(feature_sizes.data) : \A d \in 1..2 :
             /\ feature_sizes.data[l][d]
                   = ((feature_sizes.data[l - 1][d] - 1) \div 2) + 1
             /\ feature_sizes.data[l][d]
                   = CeilHalf(feature_sizes.data[l - 1][d])

SimplestCase ==
    Returned /\ args.num_scales = 1 /\ args.aspect_ratios = <<FInt(1)>>

AllSquare ==
    /\ Len(prior_boxes) =
          GridTotal(args.image_size, args.max_level, args.min_level,
                    args.max_level, 1)
    /\ \A i \in 1..Len(prior_boxes) :
          IsFinite(prior_boxes[i][3]) /\ prior_boxes[i][3] = prior_boxes[i][4]

\* C9 as claimed: with num_scales = 1 and aspect_ratios = [1.0] there is one
\* combination and every returned box has its width equal to its height,
\* whatever the image size and the level range
C9_SimplestCaseSquare == SimplestCase => AllSquare

\* C9 as amended: the same for square images (H = W)
C9_SimplestCaseSquareOnSquareImage ==
    (SimplestCase /\ args.image_size[1] = args.image_size[2]) => AllSquare

C9_Witness ==
    /\ SimplestCase
    /\ args.image_size = <<3, 3>>
    /\ args.min_level = 0 /\ args.max_level = 2
    /\ Len(prior_boxes) = 14

\* equal within the tolerance: both finite and, in exact arithmetic, the same
Close(x, y) == IsFinite(x) /\ IsFinite(y) /\ x = y

\* C10 as claimed: every corner-form box generate_anchors produces is
\* reproduced by converting it to centre form and back
C10_CornerCenterRoundTrip ==
    (call = "build_prior_boxes" /\ pc = "convert") =>
       \A i \in 1..Len(prior_boxes) : \A j \in 1..4 :
          Close(to_corner_form(to_center_form(<<prior_boxes[i]>>))[1][j],
                prior_boxes[i][j])

\* ------------------------------------------- a caller who calls repeatedly
MaxRepeatImage == 2
MaxRepeatLevel == 1

RepeatArguments ==
    [min_level : 0..MaxRepeatLevel, max_level : 0..MaxRepeatLevel,
     num_scales : {1}, aspect_ratios : {<<FInt(1)>>, <<FInt(1), FInt(2)>>},
     anchor_scale : {FInt(1)},
     image_size : (1..MaxRepeatImage) \X (1..MaxRepeatImage)]

\* the first call of the caller: build_prior_boxes, or generate_anchors with
\* the caller's own feature_sizes and anchor_scales arrays
InitRepeat ==
    /\ args \in RepeatArguments
    /\ \/ /\ call = "build_prior_boxes"
          /\ feature_sizes = NoFeatureSizes
          /\ anchor_scales = <<>>
          /\ pc = "start"
       \/ /\ call = "generate_anchors"
          /\ feature_sizes =
                compute_feature_sizes(args.image_size, MaxRepeatLevel)
          /\ \E n \in 1..2 : anchor_scales = [i \in 1..n |-> FInt(i)]
          /\ pc = "configure"
    /\ configuration = NoConfiguration("none")
    /\ level = 0
    /\ boxes_all = <<>>
    /\ anchors = <<>>
    /\ prior_boxes = <<>>
    /\ err = "ok"
    /\ previous = NoValue /\ box_coordinates = NoValue
    /\ image_scale = NoValue /\ scaled_image = NoValue
    /\ output_images = NoValue
    /\ indices = NoValue /\ proposals = NoValue
    /\ trimmed = NoValue

Finished == pc \in {"done", "raised"}

\* what the caller keeps of the call that just ended, and what it does next
Outcome(then) ==
    [call |-> call, args |-> args, feature_sizes |-> feature_sizes,
     anchor_scales |-> anchor_scales, err |-> err,
     result |-> IF call = "generate_anchors" THEN anchors ELSE prior_boxes,
     then |-> then]

\* the call now running is the caller's first one, or one made in between
Repeatable ==
    IF previous = <<>> THEN TRUE
    ELSE previous[Len(previous)].then = "between"

\* after its first call, the caller calls build_prior_boxes with other arguments
CallBetween ==
    /\ Finished
    /\ previous = <<>>
    /\ previous' = <<Outcome("between")>>
    /\ call' = "build_prior_boxes"
    /\ args' \in RepeatArguments
    /\ feature_sizes' = NoFeatureSizes
    /\ anchor_scales' = <<>>
    /\ configuration' = NoConfiguration("none")
    /\ level' = 0 /\ boxes_all' = <<>>
    /\ anchors' = <<>> /\ prior_boxes' = <<>>
    /\ err' = "ok"
    /\ pc' = "start"
    /\ UNCHANGED <<box_coordinates, image_scale, scaled_image, output_images,
                   indices, proposals, trimmed>>

\* the caller repeats its first call: the same function, the same argument
\* objects as they are now
CallAgain ==
    /\ Finished
    /\ Repeatable
    /\ previous' = Append(previous, Outcome("repeat"))
    /\ call' = IF previous = <<>> THEN call ELSE previous[1].call
    /\ args' = IF previous = <<>> THEN args ELSE previous[1].args
    /\ IF call' = "build_prior_boxes"
       THEN /\ feature_sizes' = NoFeatureSizes
            /\ anchor_scales' = <<>>
            /\ pc' = "start"
       ELSE /\ feature_sizes' = IF previous = <<>> THEN feature_sizes
                                ELSE previous[1].feature_sizes
            /\ anchor_scales' = IF previous = <<>> THEN anchor_scales
                                ELSE previous[1].anchor_scales
            /\ pc' = "configure"
    /\ configuration' = NoConfiguration("none")
    /\ level' = 0 /\ boxes_all' = <<>>
    /\ anchors' = <<>> /\ prior_boxes' = <<>>
    /\ err' = "ok"
    /\ UNCHANGED <<box_coordinates, image_scale, scaled_image, output_images,
                   indices, proposals, trimmed>>

NextRepeat ==
    \/ BuildPriorBoxes
    \/ GenerateConfigurations
    \/ GenerateLevel
    \/ StackAnchors
    \/ ToCenterForm
    \/ CallBetween
    \/ CallAgain

SpecRepeat == InitRepeat /\ [][NextRepeat]_vars

C12_ArgumentsUntouched ==
    [][(~Finished) =>
          /\ args' = args
          /\ call' = call
          /\ previous' = previous
          /\ pc # "start" =>
                (feature_sizes' = feature_sizes
                   /\ anchor_scales' = anchor_scales)]_vars

\* a repeated generate_anchors call that returned, its arrays as first passed
C12_Witness ==
    /\ pc = "done" /\ call = "generate_anchors"
    /\ Len(previous) = 1
    /\ anchors # <<>>
    /\ anchors = previous[1].result
    /\ Len(anchor_scales) = 2
    /\ feature_sizes = compute_feature_sizes(args.image_size, MaxRepeatLevel)

\* ------------------------------------ necessary_imports.py: ScaledResize
MaxResize == 3

\* an image is known by its shape (height, width, channels)
Images ==
    {[shape |-> <<h, w, c>>] : h \in 1..MaxResize, w \in 1..MaxResize,
                               c \in {1, 3}}

\* compute_image_scale: width, height and min(image_size / width,
\* image_size / height)
compute_image_scale(image_size, image) ==
    LET height == RInt(image.shape[1])
        width == RInt(image.shape[2])
        image_scale_y == RDiv(RInt(image_size), height)
        image_scale_x == RDiv(RInt(image_size), width)
    IN  [width |-> width, height |-> height,
         image_scale |-> IF RLt(image_scale_x, image_scale_y)
                         THEN image_scale_x ELSE image_scale_y]

\* paz.backend.image.opencv_image (not in src/): the image resized to
\* size = (width, height); an empty size is an error
resize_image(image, size) ==
    IF size[1] <= 0 \/ size[2] <= 0
    THEN [err |-> "cv2.error", shape |-> <<>>]
    ELSE [err |-> "ok", shape |-> <<size[2], size[1], image.shape[3]>>]

\* scale_image: the sizes are cast to int32, which truncates
scale_image(image, width, height, scale) ==
    LET scaled_height == RFloor(RMul(height, scale))
        scaled_width == RFloor(RMul(width, scale))
    IN  resize_image(image, <<scaled_width, scaled_height>>)

\* crop_image: scaled_image[y: y + image_size, x: x + image_size, :]
crop_image(image_size, scaled, crop_offset_x, crop_offset_y) ==
    [shape |->
       <<Max(0, Min(crop_offset_y + image_size, scaled.shape[1])
                  - Min(crop_offset_y, scaled.shape[1])),
         Max(0, Min(crop_offset_x + image_size, scaled.shape[2])
                  - Min(crop_offset_x, scaled.shape[2])),
         scaled.shape[3]>>]

\* np.zeros(shape, dtype, order): an integer is no data type
NpZeros(shape, dtype, order) ==
    IF dtype \in Int THEN [err |-> "TypeError", shape |-> <<>>]
    ELSE [err |-> "ok", shape |-> shape]

\* compose_output: np.zeros(*args) with args = (image_size, image_size,
\* channels) passes image_size as the dtype
compose_output(image_size, image, scaled, scale) ==
    LET zeros == NpZeros(image_size, image_size, image.shape[3])
    IN  IF zeros.err # "ok"
        THEN [err |-> zeros.err, output_images |-> <<>>, image_scale |-> scale]
        ELSE [err |-> "ok",
              output_images |-> <<1>> \o zeros.shape,
              image_scale |-> RInv(scale)]

\* positional parameters of compose_output(self, image, scaled_image,
\* image_scale)
ComposeOutputParameters == 4

\* calling a bound method passes self and then the given arguments; a count
\* other than the parameters is a TypeError
BoundCall(parameters, given) ==
    IF 1 + Len(given) # parameters THEN "TypeError" ELSE "ok"

InitResize ==
    /\ call = "ScaledResize.call"
    /\ \E size \in 1..MaxResize, image \in Images :
          args = [image_size |-> size, image |-> image]
    /\ pc = "compute_image_scale"
    /\ err = "ok"
    /\ feature_sizes = NoFeatureSizes
    /\ anchor_scales = <<>>
    /\ configuration = NoConfiguration("none")
    /\ level = 0
    /\ boxes_all = <<>>
    /\ anchors = <<>>
    /\ prior_boxes = <<>>
    /\ previous = NoValue /\ box_coordinates = NoValue
    /\ image_scale = NoValue /\ scaled_image = NoValue
    /\ output_images = NoValue
    /\ indices = NoValue /\ proposals = NoValue
    /\ trimmed = NoValue

\* what ScaledResize.call never touches
resizeFrame ==
    <<call, args, feature_sizes, anchor_scales, configuration, level,
      boxes_all, anchors, prior_boxes, previous, box_coordinates, indices,
      proposals, trimmed>>

\* width, height, image_scale = self.compute_image_scale(image)
ComputeImageScale ==
    /\ pc = "compute_image_scale"
    /\ image_scale' =
          compute_image_scale(args.image_size, args.image).image_scale
    /\ pc' = "scale_image"
    /\ UNCHANGED <<scaled_image, output_images, err, resizeFrame>>

\* scaled_image = self.scale_image(image, width, height, image_scale)
ScaleImage ==
    /\ pc = "scale_image"
    /\ LET scaled == scale_image(args.image, RInt(args.image.shape[2]),
                                 RInt(args.image.shape[1]), image_scale)
       IN  IF scaled.err # "ok"
           THEN /\ err' = scaled.err
                /\ pc' = "raised"
                /\ UNCHANGED scaled_image
           ELSE /\ scaled_image' = [shape |-> scaled.shape]
                /\ pc' = "crop_image"
                /\ err' = err
    /\ UNCHANGED <<image_scale, output_images, resizeFrame>>

\* scaled_image = self.crop_image(scaled_image, np.array(0), np.array(0))
CropImage ==
    /\ pc = "crop_image"
    /\ scaled_image' = crop_image(args.image_size, scaled_image, 0, 0)
    /\ pc' = "compose_output"
    /\ UNCHANGED <<image_scale, output_images, err, resizeFrame>>

\* args = (self, image, scaled_image, image_scale);
\* output_images, image_scale = self.compose_output(*args)
ComposeOutput ==
    /\ pc = "compose_output"
    /\ LET bound == BoundCall(ComposeOutputParameters,
                              <<"self", args.image, scaled_image, image_scale>>)
           composed == compose_output(args.image_size, args.image,
                                      scaled_image, image_scale)
       IN  IF bound # "ok" \/ composed.err # "ok"
           THEN /\ err' = IF bound # "ok" THEN bound ELSE composed.err
                /\ pc' = "raised"
                /\ UNCHANGED <<output_images, image_scale>>
           ELSE /\ output_images' = composed.output_images
                /\ image_scale' = composed.image_scale
                /\ pc' = "done"
                /\ err' = err
    /\ UNCHANGED <<scaled_image, resizeFrame>>

NextResize ==
    \/ ComputeImageScale
    \/ ScaleImage
    \/ CropImage
    \/ ComposeOutput

SpecResize == InitResize /\ [][NextResize]_vars

\* the scaled height and width are at least 1, so that resize_image succeeds
ScaledSizePositive ==
    LET scale == compute_image_scale(args.image_size, args.image).image_scale
    IN  /\ RFloor(RMul(RInt(args.image.shape[1]), scale)) >= 1
        /\ RFloor(RMul(RInt(args.image.shape[2]), scale)) >= 1

\* C13 as claimed: for an image of positive height, width and channels (here
\* one whose scaled size is positive too) ScaledResize(image_size).call(image)
\* does not raise, and what it returns is output_images of shape
\* (1, image_size, image_size, channels) and the reciprocal of
\* min(image_size / width, image_size / height)
C13_ScaledResizeReturns ==
    (call = "ScaledResize.call" /\ ScaledSizePositive) =>
       /\ pc # "raised"
       /\ pc = "done" =>
             /\ output_images = <<1, args.image_size, args.image_size,
                                  args.image.shape[3]>>
             /\ image_scale =
                   RInv(compute_image_scale(args.image_size,
                                            args.image).image_scale)

\* every row of a configuration array has one entry per combination
ShapeLevelsByCombinations(rows) ==
    /\ Len(rows) = NumLevels
    /\ \A l \in 1..Len(rows) : Len(rows[l]) = Combinations

\* combination c (0-based) has octave (c // len(aspect_ratios)) / num_scales
\* and aspect ratio aspect_ratios[c mod len(aspect_ratios)]
ScaleMajor(cfg) ==
    \A l \in 1..Len(cfg.octave_scales) :
       /\ \A c \in 1..Len(cfg.octave_scales[l]) :
             cfg.octave_scales[l][c] =
                Rat((c - 1) \div Len(args.aspect_ratios), args.num_scales)
       /\ \A c \in 1..Len(cfg.aspects[l]) :
             cfg.aspects[l][c] =
                args.aspect_ratios[((c - 1) % Len(args.aspect_ratios)) + 1]
       /\ \A i \in 0..(args.num_scales - 1) :
             \A j \in 1..Len(args.aspect_ratios) :
                Cardinality({c \in 1..Len(cfg.octave_scales[l]) :
                               /\ cfg.octave_scales[l][c]
                                     = Rat(i, args.num_scales)
                               /\ (c - 1) % Len(args.aspect_ratios) = j - 1})
                   = 1

\* C14 as claimed: the five arrays generate_configurations returns all have
\* shape [num_levels][C], with num_levels = max_level - min_level + 1 and
\* C = num_scales * len(aspect_ratios), and the combinations are scale-major
C14_ConfigurationShape ==
    configuration.err = "ok" =>
       /\ configuration.num_levels = NumLevels
       /\ configuration.combinations = Combinations
       /\ ShapeLevelsByCombinations(configuration.strides_y)
       /\ ShapeLevelsByCombinations(configuration.strides_x)
       /\ ShapeLevelsByCombinations(configuration.octave_scales)
       /\ ShapeLevelsByCombinations(configuration.aspects)
       /\ ShapeLevelsByCombinations(configuration.anchor_scales)
       /\ ScaleMajor(configuration)

\* ------------------------------ a direct call of compute_box_coordinates
MaxStride == 5
MaxExtent == 2

\* strides n / d, whole and half pixels
Strides == {FRat(Rat(n, d)) : n \in 1..MaxStride, d \in 1..2}

InitCoordinates ==
    /\ call = "compute_box_coordinates"
    /\ \E stride_y \in Strides, stride_x \in Strides,
          image_size \in (1..MaxExtent) \X (1..MaxExtent) :
          args = [stride_y |-> stride_y, stride_x |-> stride_x,
                  octave_scale |-> Zero, aspect |-> FInt(1),
                  anchor_scale |-> FInt(1), image_size |-> image_size]
    /\ pc = "compute_box_coordinates"
    /\ err = "ok"
    /\ feature_sizes = NoFeatureSizes
    /\ anchor_scales = <<>>
    /\ configuration = NoConfiguration("none")
    /\ level = 0
    /\ boxes_all = <<>>
    /\ anchors = <<>>
    /\ prior_boxes = <<>>
    /\ previous = NoValue /\ box_coordinates = NoValue
    /\ image_scale = NoValue /\ scaled_image = NoValue
    /\ output_images = NoValue
    /\ indices = NoValue /\ proposals = NoValue
    /\ trimmed = NoValue

\* box_coordinates = compute_box_coordinates(stride_y, stride_x, octave_scale,
\* aspect, anchor_scale, image_size)
ComputeBoxCoordinates ==
    /\ pc = "compute_box_coordinates"
    /\ box_coordinates' =
          compute_box_coordinates(args.stride_y, args.stride_x,
                                  args.octave_scale, args.aspect,
                                  args.anchor_scale, args.image_size)
    /\ err' = box_coordinates'.err
    /\ pc' = IF box_coordinates'.err = "ok" THEN "done" ELSE "raised"
    /\ UNCHANGED <<call, args, feature_sizes, anchor_scales, configuration,
                   level, boxes_all, anchors, prior_boxes, previous,
                   image_scale, scaled_image, output_images, indices,
                   proposals, trimmed>>

NextCoordinates == ComputeBoxCoordinates

SpecCoordinates == InitCoordinates /\ [][NextCoordinates]_vars

\* the distinct x and y centres of the returned grid
CentresX == {box_coordinates.center_x[g] : g \in 1..Len(box_coordinates.center_x)}
CentresY == {box_coordinates.center_y[g] : g \in 1..Len(box_coordinates.center_y)}

\* the stride exceeds the image extent: x runs over image_size[1] (the width),
\* y over image_size[0] (the height)
StrideXExceeds == RLt(RInt(args.image_size[2]), NA(args.stride_x))
StrideYExceeds == RLt(RInt(args.image_size[1]), NA(args.stride_y))

\* C15 as claimed: when the stride along an axis exceeds the image extent
\* along that axis, the grid has exactly one centre along that axis, never none
C15_LargeStrideOnePoint ==
    (call = "compute_box_coordinates" /\ pc = "done") =>
       /\ StrideXExceeds => Cardinality(CentresX) = 1
       /\ StrideYExceeds => Cardinality(CentresY) = 1

\* the stride of level l (an index into the configuration, from 1) along
\* dimension d (1 is y, 2 is x): image extent over feature size of the level
LevelStride(l, d) ==
    FRat(Rat(args.image_size[d], feature_sizes.data[args.min_level + l][d]))

\* C16: for every level l in min_level..max_level (each with its row of
\* feature_sizes) and every combination, stride_y = image_H / feature_H[l] and
\* stride_x = image_W / feature_W[l], the base being row 0 of feature_sizes
\* whatever min_level is; so the strides do not decrease with the level, and
\* are 2^l along an axis whose image dimension is a multiple of 2^l
C16_StridesFromBaseLevel ==
    (configuration.err = "ok" /\ FeatureRows >= args.max_level + 1) =>
       /\ feature_sizes.data[1] = args.image_size
       /\ Len(configuration.strides_y) = NumLevels
       /\ Len(configuration.strides_x) = NumLevels
       /\ \A l \in 1..NumLevels :
             /\ Len(configuration.strides_y[l]) = Combinations
             /\ Len(configuration.strides_x[l]) = Combinations
             /\ \A c \in 1..Combinations :
                   /\ configuration.strides_y[l][c] = LevelStride(l, 1)
                   /\ configuration.strides_x[l][c] = LevelStride(l, 2)
             /\ \A d \in 1..2 :
                   /\ l < NumLevels =>
                         RLeq(NA(LevelStride(l, d)), NA(LevelStride(l + 1, d)))
                   /\ args.image_size[d] % IPow(2, args.min_level + l - 1) = 0
                         => LevelStride(l, d)
                               = FInt(IPow(2, args.min_level + l - 1))

\* levels 1 and 2 of a 2 x 3 image: strides 2 and 2 along y, 3/2 and 3 along x
C16_Witness ==
    /\ call = "build_prior_boxes" /\ pc = "levels"
    /\ args.image_size = <<2, 3>>
    /\ args.min_level = 1 /\ args.max_level = 2
    /\ configuration.strides_y[1][1] = FInt(2)
    /\ configuration.strides_x[1][1] = FRat(<<3, 2>>)
    /\ configuration.strides_y[2][1] = FInt(2)
    /\ configuration.strides_x[2][1] = FInt(3)

\* index of the first box of level l (an index from 1) in the returned array,
\* less one
LevelOffset(l) ==
    IF l = 1 THEN 0
    ELSE GridTotal(args.image_size, args.max_level, args.min_level,
                   args.min_level + l - 2, Combinations)

\* the boxes of combination c of level l have one width and one height
SameSize(l, c) ==
    \A g \in 1..GridPoints(args.image_size, args.max_level,
                           args.min_level + l - 1) :
       /\ prior_boxes[LevelOffset(l) + (g - 1) * Combinations + c][3]
             = prior_boxes[LevelOffset(l) + c][3]
       /\ prior_boxes[LevelOffset(l) + (g - 1) * Combinations + c][4]
             = prior_boxes[LevelOffset(l) + c][4]

\* C17: within a level, the boxes of one combination have the same width and
\* the same height at every grid position; and in build_prior_boxes every
\* combination of every level has the one anchor base scale
C17_SizePerCombination ==
    /\ Returned =>
          \A l \in 1..NumLevels : \A c \in 1..Combinations : SameSize(l, c)
    /\ (call = "build_prior_boxes" /\ configuration.err = "ok") =>
          \A l \in 1..Len(configuration.anchor_scales) :
             \A c \in 1..Len(configuration.anchor_scales[l]) :
                configuration.anchor_scales[l][c] = args.anchor_scale

\* 9 grid points with 2 combinations at level 0, 4 at level 1: the boxes of a
\* combination agree, those of different combinations or levels differ
C17_Witness ==
    /\ Returned
    /\ args.image_size = <<3, 3>>
    /\ args.min_level = 0 /\ args.max_level = 1
    /\ args.num_scales = 1
    /\ args.aspect_ratios = <<FInt(1), FInt(2)>>
    /\ Len(prior_boxes) = 26
    /\ prior_boxes[1][3] = prior_boxes[17][3]
    /\ prior_boxes[1][3] # prior_boxes[2][3]
    /\ prior_boxes[1][3] # prior_boxes[19][3]

\* centre number i (from 0) of an axis with the given stride and image extent:
\* (stride / 2 + i * stride) / extent
AxisCentre(stride, i, extent) ==
    FDiv(FAdd(FDiv(stride, FInt(2)), FMul(FInt(i), stride)), FInt(extent))

\* the grid bc of a level with feature size (ny, nx): point g = iy * nx + ix
\* has the centre of x number ix and of y number iy, which is
\* ((ix + 1/2) / nx, (iy + 1/2) / ny), strictly inside (0, 1)
CentresRowMajor(bc, stride_x, stride_y, nx, ny, image_size) ==
    /\ bc.err = "ok"
    /\ Len(bc.center_x) = ny * nx
    /\ Len(bc.center_y) = ny * nx
    /\ \A iy \in 0..(ny - 1) : \A ix \in 0..(nx - 1) :
          /\ bc.center_x[iy * nx + ix + 1]
                = AxisCentre(stride_x, ix, image_size[2])
          /\ bc.center_y[iy * nx + ix + 1]
                = AxisCentre(stride_y, iy, image_size[1])
          /\ bc.center_x[iy * nx + ix + 1] = FRat(Rat(2 * ix + 1, 2 * nx))
          /\ bc.center_y[iy * nx + ix + 1] = FRat(Rat(2 * iy + 1, 2 * ny))
          /\ StrictlyInside(bc.center_x[iy * nx + ix + 1])
          /\ StrictlyInside(bc.center_y[iy * nx + ix + 1])

\* the returned boxes of level l, of feature size (ny, nx), have these centres
ReturnedCentres(l, nx, ny) ==
    \A iy \in 0..(ny - 1) : \A ix \in 0..(nx - 1) : \A c \in 1..Combinations :
       /\ prior_boxes[LevelOffset(l) + (iy * nx + ix) * Combinations + c][1]
             = FRat(Rat(2 * ix + 1, 2 * nx))
       /\ prior_boxes[LevelOffset(l) + (iy * nx + ix) * Combinations + c][2]
             = FRat(Rat(2 * iy + 1, 2 * ny))

\* C18: for each level and combination the grid points are enumerated row
\* major, y outermost and x innermost (g = iy * nx + ix); with
\* (W, H) = image_size the centre of point (ix, iy) is
\* ((stride_x / 2 + ix * stride_x) / H, (stride_y / 2 + iy * stride_y) / W);
\* in build_prior_boxes this is ((ix + 1/2) / feature_W[l],
\* (iy + 1/2) / feature_H[l]), strictly inside (0, 1), and for valid inputs
\* these are the centres of the returned boxes
C18_GridRowMajorCentres ==
    /\ (call = "build_prior_boxes" /\ pc = "levels"
          /\ level < configuration.num_levels) =>
          \A c \in 1..configuration.combinations :
             CentresRowMajor(
                compute_box_coordinates(
                   configuration.strides_y[level + 1][c],
                   configuration.strides_x[level + 1][c],
                   configuration.octave_scales[level + 1][c],
                   configuration.aspects[level + 1][c],
                   configuration.anchor_scales[level + 1][c],
                   args.image_size),
                configuration.strides_x[level + 1][c],
                configuration.strides_y[level + 1][c],
                feature_sizes.data[args.min_level + level + 1][2],
                feature_sizes.data[args.min_level + level + 1][1],
                args.image_size)
    /\ ValidCall =>
          \A l \in 1..NumLevels :
             ReturnedCentres(
                l,
                FeatureRow(args.image_size, args.max_level,
                           args.min_level + l - 1)[2],
                FeatureRow(args.image_size, args.max_level,
                           args.min_level + l - 1)[1])

\* a 2 x 3 grid (2 rows of 3 points): the second point is the next x of the
\* first row, the fourth point starts the second row
C18_Witness ==
    /\ Returned
    /\ args.image_size = <<2, 3>>
    /\ args.min_level = 0 /\ args.max_level = 1
    /\ args.num_scales = 1 /\ args.aspect_ratios = <<FInt(1)>>
    /\ prior_boxes[1][1] = FRat(<<1, 6>>) /\ prior_boxes[1][2] = FRat(<<1, 4>>)
    /\ prior_boxes[2][1] = FRat(<<1, 2>>) /\ prior_boxes[2][2] = FRat(<<1, 4>>)
    /\ prior_boxes[4][1] = FRat(<<1, 6>>) /\ prior_boxes[4][2] = FRat(<<3, 4>>)

\* the corner box of a centre (cx, cy) and half extents (hw, hh)
CornerBox(cx, cy, hw, hh) ==
    <<FSub(cx, hw), FSub(cy, hh), FAdd(cx, hw), FAdd(cy, hh)>>

\* in the level array boxes, combination c (of C) holds for every grid point
\* of bc its corner box; with positive the min corner is below the max corner
CornersOf(boxes, bc, c, C, positive) ==
    /\ bc.err = "ok"
    /\ \A g \in 1..Len(bc.center_x) :
          /\ boxes[(g - 1) * C + c]
                = CornerBox(bc.center_x[g], bc.center_y[g], bc.anchor_x,
                            bc.anchor_y)
          /\ positive =>
                /\ FSign(FSub(boxes[(g - 1) * C + c][3],
                              boxes[(g - 1) * C + c][1])) > 0
                /\ FSign(FSub(boxes[(g - 1) * C + c][4],
                              boxes[(g - 1) * C + c][2])) > 0

\* in the returned array, combination c of level l holds for every grid point
\* of bc the centre-form box (cx, cy, 2 * hw, 2 * hh)
CentreFormOf(bc, l, c) ==
    /\ bc.err = "ok"
    /\ \A g \in 1..Len(bc.center_x) :
          prior_boxes[LevelOffset(l) + (g - 1) * Combinations + c]
             = <<bc.center_x[g], bc.center_y[g],
                 FMul(FInt(2), bc.anchor_x), FMul(FInt(2), bc.anchor_y)>>

\* the coordinates compute_box_coordinates gives combination c of level l
CoordinatesOf(cfg, l, c) ==
    compute_box_coordinates(cfg.strides_y[l][c], cfg.strides_x[l][c],
                            cfg.octave_scales[l][c], cfg.aspects[l][c],
                            cfg.anchor_scales[l][c], args.image_size)

AllCentreForm(cfg) ==
    \A l \in 1..cfg.num_levels : \A c \in 1..cfg.combinations :
       CentreFormOf(CoordinatesOf(cfg, l, c), l, c)

MaxBoxes == 3
MaxProposals == 4

\* boxes (y_min, x_min, y_max, x_max): overlapping, disjoint and empty ones
BoxValues == {<<0, 0, 2, 2>>, <<0, 0, 2, 1>>, <<1, 1, 3, 3>>, <<0, 0, 0, 0>>}

\* thresholds as fractions
Thresholds == {<<1, 4>>, <<1, 2>>}

Area(b) == (b[3] - b[1]) * (b[4] - b[2])

Intersection(a, b) ==
    Max(0, Min(a[3], b[3]) - Max(a[1], b[1]))
      * Max(0, Min(a[4], b[4]) - Max(a[2], b[2]))

\* intersection over union exceeds the threshold; boxes without area never do
Overlaps(a, b, threshold) ==
    /\ Area(a) > 0 /\ Area(b) > 0
    /\ Intersection(a, b) * threshold[2]
          > threshold[1] * (Area(a) + Area(b) - Intersection(a, b))

\* of the indices S the one with the highest score, the lowest index on a tie
Best(scores, S) ==
    CHOOSE i \in S :
       \A j \in S : scores[i] > scores[j] \/ (scores[i] = scores[j] /\ i <= j)

RECURSIVE SelectUnbounded(_, _, _, _, _, _)
\* a suppression that ignores max_output_size
SelectUnbounded(boxes, scores, max_output_size, threshold, left, selected) ==
    IF left = {} THEN selected
    ELSE LET i == Best(scores, left)
             keep == \A k \in 1..Len(selected) :
                        ~Overlaps(boxes[i], boxes[selected[k]], threshold)
         IN  SelectUnbounded(boxes, scores, max_output_size, threshold,
                             left \ {i},
                             IF keep THEN Append(selected, i) ELSE selected)

RECURSIVE Select(_, _, _, _, _, _)
\* greedy suppression: by falling score, a box is selected unless it overlaps
\* a selected one, until max_output_size boxes are selected
Select(boxes, scores, max_output_size, threshold, left, selected) ==
    IF left = {} \/ Len(selected) >= max_output_size THEN selected
    ELSE LET i == Best(scores, left)
             keep == \A k \in 1..Len(selected) :
                        ~Overlaps(boxes[i], boxes[selected[k]], threshold)
         IN  Select(boxes, scores, max_output_size, threshold, left \ {i},
                    IF keep THEN Append(selected, i) ELSE selected)

\* tf.image.non_max_suppression(boxes, scores, max_output_size, iou_threshold):
\* the selected indices (here from 1), at most max_output_size of them
non_max_suppression(boxes, scores, max_output_size, iou_threshold) ==
    Select(boxes, scores, max_output_size, iou_threshold, 1..Len(boxes), <<>>)

\* tf.gather(params, indices)
TfGather(params, idx) == [k \in 1..Len(idx) |-> params[idx[k]]]

\* tf.pad(tensor, [(0, padding), (0, 0)]): padding rows of zeros at the end
TfPad(tensor, padding) ==
    tensor \o [k \in 1..padding |-> <<0, 0, 0, 0>>]

RECURSIVE SeqsUpTo(_, _)
\* the sequences over S of length at most n
SeqsUpTo(S, n) ==
    IF n = 0 THEN {<<>>}
    ELSE SeqsUpTo(S, n - 1)
           \cup {Append(q, x) : q \in {r \in SeqsUpTo(S, n - 1) : Len(r) = n - 1},
                                x \in S}

InitNMS ==
    /\ call = "compute_NMS"
    /\ \E boxes \in SeqsUpTo(BoxValues, MaxBoxes),
          proposal_count \in 0..MaxProposals, threshold \in Thresholds :
          \E scores \in [1..Len(boxes) -> 1..2] :
             args = [boxes |-> boxes, scores |-> scores,
                     proposal_count |-> proposal_count,
                     nms_threshold |-> threshold]
    /\ pc = "non_max_suppression"
    /\ err = "ok"
    /\ feature_sizes = NoFeatureSizes
    /\ anchor_scales = <<>>
    /\ configuration = NoConfiguration("none")
    /\ level = 0
    /\ boxes_all = <<>>
    /\ anchors = <<>>
    /\ prior_boxes = <<>>
    /\ previous = NoValue /\ box_coordinates = NoValue
    /\ image_scale = NoValue /\ scaled_image = NoValue
    /\ output_images = NoValue
    /\ indices = NoValue /\ proposals = NoValue
    /\ trimmed = NoValue

\* what compute_NMS never touches
nmsFrame ==
    <<call, args, err, feature_sizes, anchor_scales, configuration, level,
      boxes_all, anchors, prior_boxes, previous, box_coordinates, image_scale,
      scaled_image, output_images, trimmed>>

\* indices = tf.image.non_max_suppression(boxes, scores, proposal_count,
\* nms_threshold)
NonMaxSuppression ==
    /\ pc = "non_max_suppression"
    /\ indices' = non_max_suppression(args.boxes, args.scores,
                                      args.proposal_count, args.nms_threshold)
    /\ pc' = "gather"
    /\ UNCHANGED <<proposals, nmsFrame>>

\* proposals = tf.gather(boxes, indices)
Gather ==
    /\ pc = "gather"
    /\ proposals' = TfGather(args.boxes, indices)
    /\ pc' = "pad"
    /\ UNCHANGED <<indices, nmsFrame>>

\* padding = tf.maximum(proposal_count - tf.shape(proposals)[0], 0);
\* proposals = tf.pad(proposals, [(0, padding), (0, 0)]); return proposals
Pad ==
    /\ pc = "pad"
    /\ proposals' = TfPad(proposals,
                          Max(args.proposal_count - Len(proposals), 0))
    /\ pc' = "done"
    /\ UNCHANGED <<indices, nmsFrame>>

NextNMS ==
    \/ NonMaxSuppression
    \/ Gather
    \/ Pad

SpecNMS == InitNMS /\ [][NextNMS]_vars

\* C20: compute_NMS returns exactly proposal_count rows for any number of
\* input boxes, none and fewer than proposal_count included: first the boxes
\* non-maximum suppression selected (at most proposal_count, each a row of the
\* input, no two of them overlapping beyond the threshold), then rows of zeros
C20_ProposalCountRows ==
    (call = "compute_NMS" /\ pc = "done") =>
       /\ Len(proposals) = args.proposal_count
       /\ Len(indices) <= args.proposal_count
       /\ Len(indices) <= Len(args.boxes)
       /\ \A k \in 1..Len(indices) :
             /\ indices[k] \in 1..Len(args.boxes)
             /\ proposals[k] = args.boxes[indices[k]]
             /\ \A j \in 1..(k - 1) :
                   /\ indices[j] # indices[k]
                   /\ ~Overlaps(proposals[j], proposals[k], args.nms_threshold)
       /\ \A k \in (Len(indices) + 1)..args.proposal_count :
             proposals[k] = <<0, 0, 0, 0>>

\* three boxes, one of them suppressed, padded to four rows
C20_Witness ==
    /\ call = "compute_NMS" /\ pc = "done"
    /\ Len(args.boxes) = 3
    /\ args.proposal_count = 4
    /\ Len(indices) = 2
    /\ proposals[2] # <<0, 0, 0, 0>>
    /\ proposals[3] = <<0, 0, 0, 0>>
    /\ Len(proposals) = 4

\* ----------------- mask_rcnn/model/proposal_layer.py: trim_anchors_by_score
MaxAnchors == 3
MaxLimit == 4

\* batch sizes; images_per_gpu is the number of images of the batch
ImagesPerGpu == {1, 2}

\* foreground scores, ties included
ScoreValues == {1, 2, 3}

\* deltas [batch, N, 4]: a different row for every image and position
DeltaRows(images, N) ==
    [b \in 1..images |-> [n \in 1..N |-> <<b, n, 0 - b, 0 - n>>]]

\* anchors [batch, N, (y_min, x_min, y_max, x_max)]: the same anchors for
\* every image, a different one at every position
AnchorRows(images, N) ==
    [b \in 1..images |-> [n \in 1..N |-> <<n - 1, n - 1, n, n>>]]

\* a limit that is not clamped to the number of anchors
TrimmedLimitUnclamped(pre_nms_limit, num_anchors) == pre_nms_limit

\* tf.minimum(pre_nms_limit, tf.shape(anchors)[1])
TrimmedLimit(pre_nms_limit, num_anchors) == Min(pre_nms_limit, num_anchors)

RECURSIVE TopKFrom(_, _, _, _)
TopKFrom(scores, k, left, taken) ==
    IF Len(taken) >= k \/ left = {} THEN taken
    ELSE TopKFrom(scores, k, left \ {Best(scores, left)},
                  Append(taken, Best(scores, left)))

\* tf.nn.top_k(input, k, sorted=True).indices along the last axis: for every
\* row the indices (here from 1) of its k largest entries by falling value,
\* the lower index first among equal ones; k above the row length is an error
top_k(input, k, row_length) ==
    IF k > row_length
    THEN [err |-> "InvalidArgumentError", indices |-> <<>>]
    ELSE [err |-> "ok",
          indices |-> [b \in 1..Len(input) |->
                          TopKFrom(input[b], k, 1..row_length, <<>>)]]

\* slice_batch([params, idx], [], tf.gather, images_per_gpu): tf.gather on
\* the slice of every image, the results stacked
slice_batch_gather(params, idx, images_per_gpu) ==
    [b \in 1..images_per_gpu |-> TfGather(params[b], idx[b])]

InitTrim ==
    /\ call = "trim_anchors_by_score"
    /\ \E images \in ImagesPerGpu, N \in 0..MaxAnchors,
          pre_nms_limit \in 0..MaxLimit :
          \E scores \in [1..images -> [1..N -> ScoreValues]] :
             args = [scores |-> scores,
                     deltas |-> DeltaRows(images, N),
                     anchors |-> AnchorRows(images, N),
                     num_anchors |-> N,
                     images_per_gpu |-> images,
                     pre_nms_limit |-> pre_nms_limit]
    /\ pc = "minimum"
    /\ err = "ok"
    /\ feature_sizes = NoFeatureSizes
    /\ anchor_scales = <<>>
    /\ configuration = NoConfiguration("none")
    /\ level = 0
    /\ boxes_all = <<>>
    /\ anchors = <<>>
    /\ prior_boxes = <<>>
    /\ previous = NoValue /\ box_coordinates = NoValue
    /\ image_scale = NoValue /\ scaled_image = NoValue
    /\ output_images = NoValue
    /\ indices = NoValue /\ proposals = NoValue
    /\ trimmed = NoValue

\* what trim_anchors_by_score never touches
trimFrame ==
    <<call, args, feature_sizes, anchor_scales, configuration, level,
      boxes_all, anchors, prior_boxes, previous, box_coordinates, image_scale,
      scaled_image, output_images, proposals>>

\* pre_nms_limit = tf.minimum(pre_nms_limit, tf.shape(anchors)[1])
Minimum ==
    /\ pc = "minimum"
    /\ trimmed' = [pre_nms_limit |->
                      TrimmedLimit(args.pre_nms_limit, args.num_anchors),
                   scores |-> args.scores,
                   deltas |-> args.deltas,
                   pre_nms_anchors |-> <<>>]
    /\ pc' = "top_k"
    /\ UNCHANGED <<indices, err, trimFrame>>

\* indices = tf.nn.top_k(scores, pre_nms_limit, sorted=True).indices
TopK ==
    /\ pc = "top_k"
    /\ indices' = top_k(trimmed.scores, trimmed.pre_nms_limit,
                        args.num_anchors).indices
    /\ err' = top_k(trimmed.scores, trimmed.pre_nms_limit,
                    args.num_anchors).err
    /\ pc' = IF err' = "ok" THEN "scores" ELSE "raised"
    /\ UNCHANGED <<trimmed, trimFrame>>

\* scores = slice_batch([scores, indices], [], tf.gather, images_per_gpu)
GatherScores ==
    /\ pc = "scores"
    /\ trimmed' = [trimmed EXCEPT
                      !.scores = slice_batch_gather(trimmed.scores, indices,
                                                    args.images_per_gpu)]
    /\ pc' = "deltas"
    /\ UNCHANGED <<indices, err, trimFrame>>

\* deltas = slice_batch([deltas, indices], [], tf.gather, images_per_gpu)
GatherDeltas ==
    /\ pc = "deltas"
    /\ trimmed' = [trimmed EXCEPT
                      !.deltas = slice_batch_gather(trimmed.deltas, indices,
                                                    args.images_per_gpu)]
    /\ pc' = "anchors"
    /\ UNCHANGED <<indices, err, trimFrame>>

\* pre_nms_anchors = slice_batch([anchors, indices], [], tf.gather,
\* images_per_gpu); return scores, deltas, pre_nms_anchors
GatherAnchors ==
    /\ pc = "anchors"
    /\ trimmed' = [trimmed EXCEPT
                      !.pre_nms_anchors =
                         slice_batch_gather(args.anchors, indices,
                                            args.images_per_gpu)]
    /\ pc' = "done"
    /\ UNCHANGED <<indices, err, trimFrame>>

NextTrim ==
    \/ Minimum
    \/ TopK
    \/ GatherScores
    \/ GatherDeltas
    \/ GatherAnchors

SpecTrim == InitTrim /\ [][NextTrim]_vars

\* the original positions the outputs of image b refer to: kept entries of
\* them, all different, position i of the three outputs from the same one
SameOriginalAnchor(b, kept) ==
    /\ Len(indices[b]) = kept
    /\ Len(trimmed.scores[b]) = kept
    /\ Len(trimmed.deltas[b]) = kept
    /\ Len(trimmed.pre_nms_anchors[b]) = kept
    /\ \A i \in 1..kept :
          /\ indices[b][i] \in 1..args.num_anchors
          /\ \A j \in 1..(i - 1) : indices[b][j] # indices[b][i]
          /\ trimmed.scores[b][i] = args.scores[b][indices[b][i]]
          /\ trimmed.deltas[b][i] = args.deltas[b][indices[b][i]]
          /\ trimmed.pre_nms_anchors[b][i] = args.anchors[b][indices[b][i]]

\* the kept scores of image b fall (or stay) from position to position, and
\* no anchor left out scores higher than a kept one
HighestDescending(b, kept) ==
    /\ \A i \in 1..(kept - 1) :
          trimmed.scores[b][i] >= trimmed.scores[b][i + 1]
    /\ \A n \in 1..args.num_anchors :
          (\A i \in 1..kept : indices[b][i] # n) =>
             \A i \in 1..kept : args.scores[b][n] <= trimmed.scores[b][i]

==========================================================================
